---- MODULE Spec2Model ----
(***************************************************************************)
(* Model of the classroom-transcript annotator (src/test00.py).           *)
(*                                                                         *)
(* Text is a sequence of characters.  An ASCII character is the one-       *)
(* character string itself; any other character is the string "uXXXX" of   *)
(* its code point (so "u8003" is 考, "uff08" is （, "u3008" is 〈).          *)
(***************************************************************************)
EXTENDS Integers, Sequences, FiniteSets, TLC

VARIABLES
    concept_dict,      \* global concept_dict: ordered <<[category, terms]>>
    example_patterns,  \* global example_patterns: sequence of regex sources
    idea_patterns,     \* global idea_patterns: sequence of regex sources
    dict_status,       \* sidebar message of the dictionary upload
    pattern_status,    \* sidebar message of the pattern upload
    pc,                \* position of the script run
    row,               \* 1-based index of the row being analysed
    sents,             \* doc.sents of the current row (texts)
    segments,          \* analyze_text_with_context: segments
    i,                 \* analyze_text_with_context: loop index of the 2nd pass
    idea_context,      \* analyze_text_with_context: idea_context
    result,            \* analyze_text_with_context: result
    analyzed,          \* df['分析済み発言内容'] of the current row
    decomposed,        \* decompose_utterance(content) of the current row
    text,              \* argument of a direct decompose_utterance call
    last_context       \* history: idea_context when the previous call of
                       \* analyze_text_with_context returned

vars == <<concept_dict, example_patterns, idea_patterns, dict_status,
          pattern_status, pc, row, sents, segments, i, idea_context, result,
          analyzed, decomposed, text, last_context>>

-----------------------------------------------------------------------------
(* Characters *)

NL == "\n"

LBracket == "["

RBracket == "]"

LParenFW == "uff08"

RParenFW == "uff09"

LAngle == "u3008"

RAngle == "u3009"

\* the characters str.strip() removes that occur in the modelled texts:
\* space, line feed, tab, carriage return, ideographic space
Whitespace == {" ", NL, "\t", "\r", "u3000"}

\* the characters \d matches that occur in the modelled texts
Digits == {"0", "1", "2", "3", "4", "5", "6", "7", "8", "9"}

-----------------------------------------------------------------------------
(* Python str operations *)

\* s[a:b] with 1-based inclusive bounds
Slice(s, a, b) == SubSeq(s, a, b)

\* s.startswith(p)
StartsWith(s, p) == Len(p) <= Len(s) /\ SubSeq(s, 1, Len(p)) = p

\* s.endswith(p)
EndsWith(s, p) ==
    Len(p) <= Len(s) /\ SubSeq(s, Len(s) - Len(p) + 1, Len(s)) = p

\* the positions at which sub occurs in s
Occurrences(s, sub) ==
    {k \in 1..(Len(s) - Len(sub) + 1) : SubSeq(s, k, k + Len(sub) - 1) = sub}

\* sub in s
Contains(s, sub) == Occurrences(s, sub) # {}

Min(S) == CHOOSE x \in S : \A y \in S : x <= y

Max(S) == CHOOSE x \in S : \A y \in S : x >= y

\* the replace whose result is dropped: s as it was
RemoveFirst_Dropped(s, old) == s

\* s.replace(old, "", 1): the first occurrence of old removed, s if none
RemoveFirst(s, old) ==
    IF Occurrences(s, old) = {} THEN s
    ELSE LET k == Min(Occurrences(s, old))
         IN  SubSeq(s, 1, k - 1) \o SubSeq(s, k + Len(old), Len(s))

\* s.strip()
Strip(s) ==
    LET keep == {k \in 1..Len(s) : s[k] \notin Whitespace}
    IN  IF keep = {} THEN <<>> ELSE SubSeq(s, Min(keep), Max(keep))

\* s.split(sep) for a one-character separator
RECURSIVE Split(_, _)
Split(s, sep) ==
    LET at == {k \in 1..Len(s) : s[k] = sep}
    IN  IF at = {} THEN <<s>>
        ELSE <<SubSeq(s, 1, Min(at) - 1)>>
             \o Split(SubSeq(s, Min(at) + 1, Len(s)), sep)

\* "".join(parts)
RECURSIVE Join(_)
Join(parts) ==
    IF parts = <<>> THEN <<>> ELSE Head(parts) \o Join(Tail(parts))

\* sep.join(parts)
RECURSIVE JoinWith(_, _)
JoinWith(parts, sep) ==
    IF parts = <<>> THEN <<>>
    ELSE IF Len(parts) = 1 THEN Head(parts)
    ELSE Head(parts) \o sep \o JoinWith(Tail(parts), sep)

\* [f(x) for x in seq if keep(x)] restricted to the filter
RECURSIVE SelectNonEmpty(_)
SelectNonEmpty(seq) ==
    IF seq = <<>> THEN <<>>
    ELSE (IF Head(seq) # <<>> THEN <<Head(seq)>> ELSE <<>>)
         \o SelectNonEmpty(Tail(seq))

-----------------------------------------------------------------------------
(* Python re: the dialect the repository's patterns are written in.        *)
(* A compiled pattern is a sequence of items; an item matches a run of     *)
(* lo..hi characters (hi = 1 unless unbounded) from cs, or of any          *)
(* character but the line feed when any is set ('.' without re.DOTALL).    *)

Item(cs, any, lo, unbounded, lazy, cap) ==
    [cs |-> cs, any |-> any, lo |-> lo, unbounded |-> unbounded,
     lazy |-> lazy, cap |-> cap]

ReError == [ok |-> FALSE, items |-> <<>>]

\* the first position >= k of an unescaped c in src, 0 if none
RECURSIVE Unescaped(_, _, _)
Unescaped(src, k, c) ==
    IF k > Len(src) THEN 0
    ELSE IF src[k] = "\\" THEN Unescaped(src, k + 2, c)
    ELSE IF src[k] = c THEN k
    ELSE Unescaped(src, k + 1, c)

\* the members of a character set body: \d is the digits, \x is x
RECURSIVE ClassMembers(_)
ClassMembers(body) ==
    IF body = <<>> THEN {}
    ELSE IF Head(body) = "\\" /\ Len(body) >= 2
         THEN (IF body[2] = "d" THEN Digits ELSE {body[2]})
              \cup ClassMembers(SubSeq(body, 3, Len(body)))
    ELSE {Head(body)} \cup ClassMembers(Tail(body))

\* the quantifier that follows an atom ending before position k:
\* [n |-> characters of src it takes, lo, unbounded, lazy]
Quantifier(src, k) ==
    LET q    == IF k <= Len(src) /\ src[k] \in {"+", "*", "?"}
                THEN src[k] ELSE ""
        lazy == q # "" /\ k + 1 <= Len(src) /\ src[k + 1] = "?"
    IN  [n         |-> (IF q = "" THEN 0 ELSE 1) + (IF lazy THEN 1 ELSE 0),
         lo        |-> IF q \in {"*", "?"} THEN 0 ELSE 1,
         unbounded |-> q \in {"+", "*"},
         lazy      |-> lazy]

\* sre_parse on src from position k: [ok, items]; ok is FALSE where
\* re.compile raises re.error
RECURSIVE Parse(_, _)
Parse(src, k) ==
    IF k > Len(src) THEN [ok |-> TRUE, items |-> <<>>]
    ELSE
    LET c == src[k]
        \* the atom at k: [ok, n (characters taken), cs, any, group]
        atom ==
          IF c = "\\"
          THEN IF k = Len(src)
               THEN [ok |-> FALSE]                        \* bad escape
               ELSE [ok |-> TRUE, n |-> 2, any |-> FALSE, group |-> <<>>,
                     cs |-> IF src[k + 1] = "d" THEN Digits
                            ELSE {src[k + 1]}]
          ELSE IF c = "["
          THEN LET j == Unescaped(src, k + 2, "]")
               IN  IF j = 0
                   THEN [ok |-> FALSE]          \* unterminated character set
                   ELSE [ok |-> TRUE, n |-> j - k + 1, any |-> FALSE,
                         group |-> <<>>,
                         cs |-> ClassMembers(SubSeq(src, k + 1, j - 1))]
          ELSE IF c = "("
          THEN LET j == Unescaped(src, k + 1, ")")
               IN  IF j = 0
                   THEN [ok |-> FALSE]          \* missing ), unterminated
                   ELSE LET inner == Parse(SubSeq(src, k + 1, j - 1), 1)
                        IN  IF ~inner.ok THEN [ok |-> FALSE]
                            ELSE [ok |-> TRUE, n |-> j - k + 1,
                                  any |-> FALSE, cs |-> {},
                                  group |-> <<inner.items>>]
          ELSE IF c = ")"
          THEN [ok |-> FALSE]                   \* unbalanced parenthesis
          ELSE IF c \in {"+", "*", "?"}
          THEN [ok |-> FALSE]                   \* nothing to repeat
          ELSE IF c = "."
          THEN [ok |-> TRUE, n |-> 1, any |-> TRUE, cs |-> {},
                group |-> <<>>]
          ELSE [ok |-> TRUE, n |-> 1, any |-> FALSE, cs |-> {c},
                group |-> <<>>]
    IN  IF ~atom.ok THEN ReError
        ELSE IF atom.group # <<>>
        THEN \* a group: its one item captures; a longer body is a sequence
             LET body == atom.group[1]
                 rest == Parse(src, k + atom.n)
                 here == IF Len(body) = 1
                         THEN <<[body[1] EXCEPT !.cap = TRUE]>>
                         ELSE body
             IN  IF ~rest.ok THEN ReError
                 ELSE [ok |-> TRUE, items |-> here \o rest.items]
        ELSE LET q    == Quantifier(src, k + atom.n)
                 rest == Parse(src, k + atom.n + q.n)
             IN  IF ~rest.ok THEN ReError
                 ELSE [ok |-> TRUE,
                       items |-> <<Item(atom.cs, atom.any, q.lo, q.unbounded,
                                        q.lazy, FALSE)>> \o rest.items]

\* re.compile(src)
Compile(src) == Parse(src, 1)

\* does character ch match item t
CharOk(t, ch) == IF t.any THEN ch # NL ELSE ch \in t.cs

\* the longest run of characters of s from position p that t matches
Run(t, s, p) ==
    Max({n \in 0..(Len(s) - p + 1) :
            \A q \in p..(p + n - 1) : CharOk(t, s[q])})

NoMatch == [ok |-> FALSE, end |-> 0, cap |-> <<>>]

\* the backtracking match of items[k..] against s from position p:
\* [ok, end (position after the match), cap (text of the capturing item)]
RECURSIVE MatchFrom(_, _, _, _)
MatchFrom(items, k, s, p) ==
    IF k > Len(items) THEN [ok |-> TRUE, end |-> p, cap |-> <<>>]
    ELSE
    LET t     == items[k]
        hi    == IF t.unbounded THEN Run(t, s, p)
                 ELSE IF p <= Len(s) /\ CharOk(t, s[p]) THEN 1 ELSE 0
        cands == {n \in t.lo..hi : MatchFrom(items, k + 1, s, p + n).ok}
    IN  IF cands = {} THEN NoMatch
        ELSE LET n == IF t.lazy THEN Min(cands) ELSE Max(cands)
                 r == MatchFrom(items, k + 1, s, p + n)
             IN  [ok  |-> TRUE,
                  end |-> r.end,
                  cap |-> IF t.cap THEN SubSeq(s, p, p + n - 1) ELSE r.cap]

\* the start positions >= from at which the compiled pattern matches s
MatchStarts(items, s, from) ==
    {p \in from..(Len(s) + 1) : MatchFrom(items, 1, s, p).ok}

\* pattern.match(s) in place of pattern.search(s): a match at the start only
SearchItems_Anchored(items, s) == MatchFrom(items, 1, s, 1).ok

\* pattern.search(s) is not None, for a compiled pattern
SearchItems(items, s) ==
    \E p \in 1..(Len(s) + 1) : MatchFrom(items, 1, s, p).ok

\* re.search(src, s) is not None, for a pattern that compiles
Search(src, s) == SearchItems(Compile(src).items, s)

\* re.findall for a compiled pattern with one group: the group's texts of
\* the non-overlapping matches, scanning s left to right from position from
RECURSIVE FindAllFrom(_, _, _)
FindAllFrom(items, s, from) ==
    LET starts == MatchStarts(items, s, from)
    IN  IF starts = {} THEN <<>>
        ELSE LET p == Min(starts)
                 m == MatchFrom(items, 1, s, p)
             IN  <<m.cap>>
                 \o FindAllFrom(items, s, IF m.end > p THEN m.end ELSE p + 1)

-----------------------------------------------------------------------------
(* Module-level configuration, lines 33-94.  A dict is the ordered         *)
(* sequence of its items.                                                   *)

\* example_patterns as the module defines it
default_example_patterns ==
  <<
    <<"u4f8b", "u3048", "u3070", "[", "u3001", ",", "]">>,
    <<"u305f", "u3068", "u3048", "u3070", "[", "u3001", ",", "]">>,
    <<"u5177", "u4f53", "u7684", "u306b", "u306f">>,
    <<"u5177", "u4f53", "u4f8b">>,
    <<"u4e8b", "u4f8b">>,
    <<"u5b9f", "u4f8b">>,
    <<"\\", "d", "+", "u6708", "\\", "d", "+", "u65e5">>,
    <<"u6628", "u65e5">>,
    <<"u5148", "u65e5">>,
    <<"u5148", "u9031">>,
    <<"u4eca", "u65e5">>,
    <<"u660e", "u65e5">>,
    <<"u5348", "u524d">>,
    <<"u5348", "u5f8c">>,
    <<"u301c", "u6642">>,
    <<"u301c", "u5206">>,
    <<"u301c", "u5e74">>,
    <<"u301c", "u6708">>,
    <<"u301c", "u65e5">>,
    <<"u301c", "u3055", "u3093", "u306f">>,
    <<"u301c", "u304f", "u3093", "u306f">>,
    <<"u301c", "u3061", "u3083", "u3093", "u306f">>,
    <<"u79c1", "u306f">>,
    <<"u50d5", "u306f">>,
    <<"u308f", "u305f", "u3057", "u306f">>,
    <<"u307c", "u304f", "u306f">>,
    <<"u79c1", "u306e">>,
    <<"u50d5", "u306e">>,
    <<"u308f", "u305f", "u3057", "u306e">>,
    <<"u307c", "u304f", "u306e">>,
    <<"u6301", "u3063", "u3066", "u3044", "u308b">>,
    <<"u8cb7", "u3063", "u305f">>,
    <<"u3082", "u3089", "u3063", "u305f">>,
    <<"u301c", "u5e97">>,
    <<"u301c", "u5c4b">>,
    <<"u301c", "u9928">>,
    <<"u301c", "u5712">>,
    <<"u301c", "u516c", "u5712">>,
    <<"u301c", "u5b66", "u6821">>,
    <<"u301c", "u99c5">>,
    <<"u301c", "u5e02">>,
    <<"u301c", "u770c">>,
    <<"u301c", "u753a">>,
    <<"u301c", "u6751">>,
    <<"u301c", "u5730", "u533a">>,
    <<"u301c", "u30bb", "u30f3", "u30bf", "u30fc">>,
    <<"\\", "d", "+", "u500b">>,
    <<"\\", "d", "+", "u5186">>,
    <<"\\", "d", "+", "u4eba">>,
    <<"\\", "d", "+", "u5339">>,
    <<"\\", "d", "+", "u53f0">>,
    <<"\\", "d", "+", "u672c">>,
    <<"\\", "d", "+", "u518a">>,
    <<"\\", "d", "+", "u56de">>,
    <<"u884c", "u3063", "u305f">>,
    <<"u898b", "u305f">>,
    <<"u805e", "u3044", "u305f">>,
    <<"u611f", "u3058", "u305f">>,
    <<"u4f53", "u9a13">>,
    <<"u7d4c", "u9a13">>,
    <<"u3084", "u3063", "u3066", "u307f", "u305f">>,
    <<"u8a66", "u3057", "u305f">>
  >>

\* idea_patterns as the module defines it
default_idea_patterns ==
  <<
    <<"u601d", "u3044", "u307e", "u3059">>,
    <<"u8003", "u3048", "u307e", "u3059">>,
    <<"u611f", "u3058", "u307e", "u3059">>,
    <<"u3060", "u3068", "u601d", "u3046">>,
    <<"u3067", "u306f", "u306a", "u3044", "u304b">>,
    <<"u304b", "u3082", "u3057", "u308c", "u306a", "u3044">>,
    <<"u3060", "u308d", "u3046">>,
    <<"u3067", "u3057", "u3087", "u3046">>,
    <<"u3088", "u3046", "u3060">>,
    <<"u307f", "u305f", "u3044", "u3060">>,
    <<"u3089", "u3057", "u3044">>,
    <<"u3063", "u307d", "u3044">>,
    <<"u3057", "u305f", "u3044">>,
    <<"u6b32", "u3057", "u3044">>,
    <<"u5e0c", "u671b">>,
    <<"u9858", "u3044">>,
    <<"u5922">>,
    <<"u76ee", "u6a19">>,
    <<"u7406", "u60f3">>,
    <<"u671f", "u5f85">>,
    <<"u30a2", "u30a4", "u30c7", "u30a2">>,
    <<"u63d0", "u6848">>,
    <<"u6848">>,
    <<"u65b9", "u6cd5">>,
    <<"u3084", "u308a", "u65b9">>,
    <<"u5de5", "u592b">>,
    <<"u6539", "u5584">>,
    <<"u89e3", "u6c7a", "u7b56">>,
    <<"u5b09", "u3057", "u3044">>,
    <<"u60b2", "u3057", "u3044">>,
    <<"u697d", "u3057", "u3044">>,
    <<"u9762", "u767d", "u3044">>,
    <<"u6016", "u3044">>,
    <<"u4e0d", "u5b89">>,
    <<"u5fc3", "u914d">>,
    <<"u5b89", "u5fc3">>,
    <<"u610f", "u898b">>,
    <<"u8003", "u3048">>,
    <<"u898b", "u89e3">>,
    <<"u7acb", "u5834">>,
    <<"u8996", "u70b9">>,
    <<"u89b3", "u70b9">>,
    <<"u4e3b", "u5f35">>,
    <<"u8cdb", "u6210">>,
    <<"u53cd", "u5bfe">>,
    <<"u3082", "u3057">>,
    <<"u4eee", "u306b">>,
    <<"u305f", "u3089">>,
    <<"u308c", "u3070">>,
    <<"u306a", "u3089">>,
    <<"u3068", "u3059", "u308c", "u3070">>,
    <<"u3068", "u4eee", "u5b9a", "u3059", "u308b", "u3068">>
  >>

\* default_concept_dict
default_concept_dict ==
  <<
    [category |-> <<"u6559", "u79d1", "u30fb", "u5358", "u5143", "u30fb", "u6388", "u696d", "u6982", "u5ff5">>,
     terms |-> <<
       <<"u6570">>,
       <<"u8db3", "u3057", "u7b97">>,
       <<"u5f15", "u304d", "u7b97">>,
       <<"u639b", "u3051", "u7b97">>,
       <<"u5272", "u308a", "u7b97">>,
       <<"u65b9", "u7a0b", "u5f0f">>,
       <<"u95a2", "u6570">>,
       <<"u56f3", "u5f62">>,
       <<"u78ba", "u7387">>,
       <<"u7269", "u8a9e">>,
       <<"u6587", "u7ae0">>,
       <<"u8aad", "u89e3">>,
       <<"u8868", "u73fe">>,
       <<"u6587", "u6cd5">>,
       <<"u6f22", "u5b57">>,
       <<"u6587", "u5b66">>,
       <<"u8a69">>,
       <<"u5b9f", "u9a13">>,
       <<"u89b3", "u5bdf">>,
       <<"u751f", "u7269">>,
       <<"u5316", "u5b66">>,
       <<"u7269", "u7406">>,
       <<"u5730", "u5b66">>,
       <<"u5143", "u7d20">>,
       <<"u53cd", "u5fdc">>,
       <<"u30a8", "u30cd", "u30eb", "u30ae", "u30fc">>,
       <<"u6b74", "u53f2">>,
       <<"u5730", "u7406">>,
       <<"u653f", "u6cbb">>,
       <<"u7d4c", "u6e08">>,
       <<"u6587", "u5316">>,
       <<"u793e", "u4f1a">>,
       <<"u56fd", "u969b">>,
       <<"u74b0", "u5883">>,
       <<"u5358", "u5143">>,
       <<"u6388", "u696d">>,
       <<"u5b66", "u7fd2">>,
       <<"u6559", "u6750">>,
       <<"u30ab", "u30ea", "u30ad", "u30e5", "u30e9", "u30e0">>
     >>],
    [category |-> <<"u793e", "u4f1a", "u7684", "u6982", "u5ff5">>,
     terms |-> <<
       <<"u9053", "u5fb3">>,
       <<"u6b63", "u7fa9">>,
       <<"u6a29", "u5229">>,
       <<"u8cac", "u4efb">>,
       <<"u5e73", "u7b49">>,
       <<"u81ea", "u7531">>,
       <<"u5c0a", "u91cd">>,
       <<"u5354", "u529b">>,
       <<"u5171", "u751f">>,
       <<"u591a", "u69d8", "u6027">>,
       <<"u6301", "u7d9a", "u53ef", "u80fd", "u6027">>,
       <<"u6c11", "u4e3b", "u4e3b", "u7fa9">>,
       <<"u5e02", "u6c11", "u6027">>,
       <<"u30b0", "u30ed", "u30fc", "u30d0", "u30eb">>,
       <<"u5730", "u57df">>,
       <<"u4f1d", "u7d71">>,
       <<"u5bfe", "u8a71">>,
       <<"u8b70", "u8ad6">>,
       <<"u767a", "u8868">>,
       <<"u5354", "u529b">>,
       <<"u30c1", "u30fc", "u30e0", "u30ef", "u30fc", "u30af">>,
       <<"u610f", "u898b">>,
       <<"u5408", "u610f", "u5f62", "u6210">>
     >>],
    [category |-> <<"u601d", "u8003", "u30d7", "u30ed", "u30bb", "u30b9">>,
     terms |-> <<
       <<"u8003", "u3048">>,
       <<"u30a2", "u30a4", "u30c7", "u30a2">>,
       <<"u4eee", "u8aac">>,
       <<"u4e88", "u60f3">>,
       <<"u63a8", "u6e2c">>,
       <<"u5206", "u6790">>,
       <<"u8a55", "u4fa1">>,
       <<"u5224", "u65ad">>,
       <<"u5275", "u9020">>,
       <<"u6279", "u5224", "u7684", "u601d", "u8003">>,
       <<"u554f", "u984c", "u89e3", "u6c7a">>,
       <<"u30e1", "u30bf", "u8a8d", "u77e5">>,
       <<"u632f", "u308a", "u8fd4", "u308a">>,
       <<"u8a08", "u753b">>
     >>]
  >>

-----------------------------------------------------------------------------
(* parse_concept_dict_file *)

NoCategory == [some |-> FALSE, name |-> <<>>]

\* d[category] = []: an existing key keeps its place, a new key is appended
DictReset(d, category) ==
    IF \E k \in 1..Len(d) : d[k].category = category
    THEN [k \in 1..Len(d) |->
             IF d[k].category = category
             THEN [category |-> category, terms |-> <<>>] ELSE d[k]]
    ELSE Append(d, [category |-> category, terms |-> <<>>])

\* the terms overwritten by those of the last line read
DictExtend_Overwrite(d, category, terms) ==
    [k \in 1..Len(d) |->
        IF d[k].category = category
        THEN [category |-> category, terms |-> terms]
        ELSE d[k]]

\* d[category].extend(terms)
DictExtend(d, category, terms) ==
    [k \in 1..Len(d) |->
        IF d[k].category = category
        THEN [category |-> category, terms |-> d[k].terms \o terms]
        ELSE d[k]]

\* [term.strip() for term in line.split(',')], the empty ones dropped
TermsOfLine(line) ==
    LET parts == Split(line, ",")
    IN  SelectNonEmpty([k \in 1..Len(parts) |-> Strip(parts[k])])

\* the body of the loop over the lines, from the state (d, current)
RECURSIVE ParseLines(_, _, _)
ParseLines(lines, d, current) ==
    IF lines = <<>> THEN d
    ELSE
    LET line == Strip(Head(lines))
    IN  IF line = <<>> \/ StartsWith(line, <<"#">>)
        THEN ParseLines(Tail(lines), d, current)
        ELSE IF StartsWith(line, <<LBracket>>) /\ EndsWith(line, <<RBracket>>)
        THEN LET category == Strip(SubSeq(line, 2, Len(line) - 1))
             IN  ParseLines(Tail(lines), DictReset(d, category),
                            [some |-> TRUE, name |-> category])
        ELSE IF current.some
        THEN ParseLines(Tail(lines),
                        DictExtend(d, current.name, TermsOfLine(line)),
                        current)
        ELSE ParseLines(Tail(lines), d, current)

parse_concept_dict_file(file_content) ==
    ParseLines(Split(file_content, NL), <<>>, NoCategory)

-----------------------------------------------------------------------------
(* analyze_text_with_context: the classification of one sentence *)

Wrap(open, s, close) == <<open>> \o s \o <<close>>

\* a loop "for pattern in patterns: if re.search(pattern, s): ...; break":
\* "match" if it breaks, "none" if it runs out, "raise" if re.search
\* raises re.error on a pattern the loop reaches
RECURSIVE FirstHitFrom(_, _, _)
FirstHitFrom(patterns, k, s) ==
    IF k > Len(patterns) THEN "none"
    ELSE LET c == Compile(patterns[k])
         IN  IF ~c.ok THEN "raise"
             ELSE IF SearchItems(c.items, s) THEN "match"
             ELSE FirstHitFrom(patterns, k + 1, s)

FirstHit(patterns, s) == FirstHitFrom(patterns, 1, s)

\* the loops over concept_dict.items() and the terms: some term in s
ConceptHit(d, s) ==
    \E c \in 1..Len(d) : \E t \in 1..Len(d[c].terms) :
        Contains(s, d[c].terms[t])

\* the classification with the concept check put before the example check
ClassifySentence_ConceptFirst(sent_text, ex, d, idea) ==
    IF ConceptHit(d, sent_text)
    THEN [raised |-> FALSE, seg |-> Wrap(LParenFW, sent_text, RParenFW)]
    ELSE LET e == FirstHit(ex, sent_text)
         IN  IF e = "raise" THEN [raised |-> TRUE, seg |-> sent_text]
             ELSE IF e = "match"
             THEN [raised |-> FALSE,
                   seg |-> Wrap(LBracket, sent_text, RBracket)]
             ELSE LET f == FirstHit(idea, sent_text)
                  IN  IF f = "raise"
                      THEN [raised |-> TRUE, seg |-> sent_text]
                      ELSE IF f = "match"
                      THEN [raised |-> FALSE,
                            seg |-> Wrap(LAngle, sent_text, RAngle)]
                      ELSE [raised |-> FALSE, seg |-> sent_text]

\* the body of "for sent in doc.sents": [raised, seg]
ClassifySentence(sent_text, ex, d, idea) ==
    LET e == FirstHit(ex, sent_text)
    IN  IF e = "raise" THEN [raised |-> TRUE, seg |-> sent_text]
        ELSE IF e = "match"
        THEN [raised |-> FALSE,
              seg |-> Wrap(LBracket, sent_text, RBracket)]
        ELSE IF ConceptHit(d, sent_text)
        THEN [raised |-> FALSE,
              seg |-> Wrap(LParenFW, sent_text, RParenFW)]
        ELSE LET f == FirstHit(idea, sent_text)
             IN  IF f = "raise" THEN [raised |-> TRUE, seg |-> sent_text]
                 ELSE IF f = "match"
                 THEN [raised |-> FALSE,
                       seg |-> Wrap(LAngle, sent_text, RAngle)]
                 ELSE [raised |-> FALSE, seg |-> sent_text]

\* the patterns of the idea-context update: 考え, 思い, アイデア, 提案
idea_signal_patterns ==
    << <<"u8003", "u3048">>, <<"u601d", "u3044">>,
       <<"u30a2", "u30a4", "u30c7", "u30a2">>, <<"u63d0", "u6848">> >>

\* the context taken from the idea_patterns list instead of the fixed tokens
IdeaSignal_IdeaPatterns(segment) ==
    FirstHit(idea_patterns, segment) = "match"

\* any(re.search(pattern, segment) for pattern in [...])
IdeaSignal(segment) ==
    \E k \in 1..Len(idea_signal_patterns) :
        Search(idea_signal_patterns[k], segment)

\* the test of line 163 taken as never true: every segment looks unmarked
LooksBracketed_Never(segment) == FALSE

\* segment.startswith("[") or .startswith("（") or .startswith("〈")
LooksBracketed(segment) ==
    \/ StartsWith(segment, <<LBracket>>)
    \/ StartsWith(segment, <<LParenFW>>)
    \/ StartsWith(segment, <<LAngle>>)

\* the second loop entered without the assignment: the value left behind
StaleIdeaContext == idea_context

\* idea_context = False, before the second loop
InitialIdeaContext == FALSE

\* the segment the second loop emits at 0-based index n
Propagated(n, ctx, segment) ==
    IF n > 0 /\ ctx /\ ~LooksBracketed(segment)
    THEN Wrap(LAngle, segment, RAngle)
    ELSE segment

-----------------------------------------------------------------------------
(* decompose_utterance *)

\* r"[(.*?)\]": the opening bracket left unescaped
example_pattern_Unescaped == <<"[", "(", ".", "*", "?", ")", "\\", "]">>

\* r"\[(.*?)\]"
example_pattern == <<"\\", "[", "(", ".", "*", "?", ")", "\\", "]">>

\* r"（(.*?)）"
concept_pattern == <<LParenFW, "(", ".", "*", "?", ")", RParenFW>>

\* r"〈(.*?)〉"
idea_pattern == <<LAngle, "(", ".", "*", "?", ")", RAngle>>

\* re.findall(pattern, s): [raised, matches]
FindAll(pattern, s) ==
    LET c == Compile(pattern)
    IN  IF ~c.ok THEN [raised |-> TRUE, matches |-> <<>>]
        ELSE [raised |-> FALSE, matches |-> FindAllFrom(c.items, s, 1)]

\* for match in matches: remaining = remaining.replace(open+match+close, "", 1)
RECURSIVE RemoveSpans(_, _, _, _)
RemoveSpans(remaining, matches, open, close) ==
    IF matches = <<>> THEN remaining
    ELSE RemoveSpans(RemoveFirst(remaining, Wrap(open, Head(matches), close)),
                     Tail(matches), open, close)

\* the "その他" list built from what remains
OtherOf(remaining_text) ==
    IF Strip(remaining_text) # <<>> THEN <<Strip(remaining_text)>> ELSE <<>>

Raised == [raised |-> TRUE, example |-> <<>>, concept |-> <<>>,
           idea |-> <<>>, other |-> <<>>, remaining |-> <<>>]

\* decompose_utterance(t): the four lists (remaining is the working copy
\* after the three extractions), or raised
decompose_utterance(t) ==
    LET ex == FindAll(example_pattern, t)
        r1 == RemoveSpans(t, ex.matches, LBracket, RBracket)
        co == FindAll(concept_pattern, r1)
        r2 == RemoveSpans(r1, co.matches, LParenFW, RParenFW)
        id == FindAll(idea_pattern, r2)
        r3 == RemoveSpans(r2, id.matches, LAngle, RAngle)
    IN  IF ex.raised \/ co.raised \/ id.raised THEN Raised
        ELSE [raised |-> FALSE, example |-> ex.matches,
              concept |-> co.matches, idea |-> id.matches,
              other |-> OtherOf(r3), remaining |-> r3]

-----------------------------------------------------------------------------
(* The pattern-file parser of the sidebar, lines 483-499 *)

\* the three lists a pattern file is parsed into
RECURSIVE ParsePatternLines(_, _, _, _)
ParsePatternLines(lines, new_example, new_idea, section) ==
    IF lines = <<>> THEN [example |-> new_example, idea |-> new_idea]
    ELSE
    LET line == Strip(Head(lines))
    IN  IF line = <<>> \/ StartsWith(line, <<"#">>)
        THEN ParsePatternLines(Tail(lines), new_example, new_idea,
                 IF Contains(line, <<"u5177", "u4f53", "u4f8b">>)
                 THEN "example"
                 ELSE IF \/ Contains(line, <<"u30a2", "u30a4", "u30c7", "u30a2">>)
                         \/ Contains(line, <<"u601d", "u3044">>)
                         \/ Contains(line, <<"u69cb", "u60f3">>)
                 THEN "idea"
                 ELSE section)
        ELSE IF section = "example"
        THEN ParsePatternLines(Tail(lines), Append(new_example, line),
                               new_idea, section)
        ELSE IF section = "idea"
        THEN ParsePatternLines(Tail(lines), new_example,
                               Append(new_idea, line), section)
        ELSE ParsePatternLines(Tail(lines), new_example, new_idea, section)

ParsePatternFile(pattern_content) ==
    ParsePatternLines(Split(pattern_content, NL), <<>>, <<>>, "none")

-----------------------------------------------------------------------------
(* Inputs *)

\* most sentences doc.sents yields for one utterance
MaxSents == 2

\* most rows of the uploaded table
MaxRows == 2

\* most characters of a text handed to decompose_utterance directly
MaxTextLen == 4

SeqsUpTo(S, n) == UNION {[1..k -> S] : k \in 0..n}

\* sentence texts: 昨日 / 数 / 提案 / 思い / はい / [笑 / は<LF>い
SentencePool ==
    { <<"u6628", "u65e5">>, <<"u6570">>, <<"u63d0", "u6848">>,
      <<"u601d", "u3044">>, <<"u306f", "u3044">>, <<LBracket, "u7b11">>,
      <<"u306f", NL, "u3044">> }

\* 私は考えました。 / これは良い方法です。
Scenario4 ==
    << <<"u79c1", "u306f", "u8003", "u3048", "u307e", "u3057", "u305f",
         "u3002">>,
       <<"u3053", "u308c", "u306f", "u826f", "u3044", "u65b9", "u6cd5",
         "u3067", "u3059", "u3002">> >>

\* 思い / はい / はい: a sentence after an upgraded one
ChainUtterance ==
    << <<"u601d", "u3044">>, <<"u306f", "u3044">>, <<"u306f", "u3044">> >>

\* the sentence sequences of the rows
Utterances ==
    SeqsUpTo(SentencePool, MaxSents) \cup {Scenario4, ChainUtterance}

\* an uploaded file: its bytes decode as UTF-8 to content, or do not decode
File(content) == [decodable |-> TRUE, content |-> content]

Undecodable == [decodable |-> FALSE, content |-> <<>>]

\* "# c<LF>[A]<LF> 案 , 笑<LF>"
DictFileValid ==
    File(<<"#", " ", "c", NL, "[", "A", "]", NL,
           " ", "u6848", " ", ",", " ", "u7b11", NL>>)

\* "数<LF>[A]<LF>案": a term line before any category header
DictFileOrphan ==
    File(<<"u6570", NL, "[", "A", "]", NL, "u6848">>)

\* "数, 案": term lines and no category header at all
DictFileNoHeader == File(<<"u6570", ",", " ", "u6848">>)

DictFiles == {DictFileValid, DictFileOrphan, DictFileNoHeader, Undecodable}

\* "# 具体例<LF>数<LF># 構想<LF>はい<LF>"
PatternFileValid ==
    File(<<"#", " ", "u5177", "u4f53", "u4f8b", NL, "u6570", NL,
           "#", " ", "u69cb", "u60f3", NL, "u306f", "u3044", NL>>)

\* "# 具体例<LF>昨日<LF>(<LF>": the second pattern does not compile
PatternFileBadRegex ==
    File(<<"#", " ", "u5177", "u4f53", "u4f8b", NL, "u6628", "u65e5", NL,
           "(", NL>>)

PatternFiles == {PatternFileValid, PatternFileBadRegex, Undecodable}

Alphabet ==
    {LBracket, RBracket, LParenFW, RParenFW, LAngle, RAngle, "A", NL}

\* [A][B]（C）〈D〉その他E
SpecExample ==
    <<"[", "A", "]", "[", "B", "]", LParenFW, "C", RParenFW,
      LAngle, "D", RAngle, "u305d", "u306e", "u4ed6", "E">>

\* texts with whitespace and 、 。 around and after spans
SampleTexts ==
    { SpecExample,
      <<"u3002">>,
      <<"[", "A", "]", "u3002">>,
      <<" ", "u3001", "u3002", NL>>,
      <<" ", "A", " ", "A", NL>>,
      <<"[", "A", "]", " ", LAngle, "A", RAngle, "E", "u3002">> }

Texts == SeqsUpTo(Alphabet, MaxTextLen) \cup SampleTexts

-----------------------------------------------------------------------------
(* The script run *)

NoDecomposition ==
    [raised |-> FALSE, example |-> <<>>, concept |-> <<>>, idea |-> <<>>,
     other |-> <<>>, remaining |-> <<>>]

\* the module-level assignments, lines 33-94
Globals ==
    /\ concept_dict = default_concept_dict
    /\ example_patterns = default_example_patterns
    /\ idea_patterns = default_idea_patterns

Locals ==
    /\ dict_status = "none"
    /\ pattern_status = "none"
    /\ row = 0
    /\ sents = <<>>
    /\ segments = <<>>
    /\ i = 0
    /\ idea_context = FALSE
    /\ result = <<>>
    /\ analyzed = <<>>
    /\ decomposed = NoDecomposition

Init ==
    /\ Globals /\ Locals
    /\ pc = "dict_upload"
    /\ text = <<>>
    /\ last_context = FALSE

\* lines 441-452 with a file in the uploader
DictUpload(dict_file) ==
    /\ pc = "dict_upload"
    /\ pc' = "pattern_upload"
    /\ IF ~dict_file.decodable
       THEN /\ dict_status' = "error"
            /\ UNCHANGED concept_dict
       ELSE LET uploaded_dict == parse_concept_dict_file(dict_file.content)
            IN  IF uploaded_dict # <<>>
                THEN /\ concept_dict' = uploaded_dict
                     /\ dict_status' = "success"
                ELSE /\ dict_status' = "warning"
                     /\ UNCHANGED concept_dict
    /\ UNCHANGED <<example_patterns, idea_patterns, pattern_status, row,
                   sents, segments, i, idea_context, result, analyzed,
                   decomposed, text, last_context>>

\* line 441 with dict_file None
NoDictUpload ==
    /\ pc = "dict_upload"
    /\ pc' = "pattern_upload"
    /\ UNCHANGED <<concept_dict, example_patterns, idea_patterns,
                   dict_status, pattern_status, row, sents, segments, i,
                   idea_context, result, analyzed, decomposed, text, last_context>>

\* lines 478-508 with a file in the uploader
PatternUpload(pattern_file) ==
    /\ pc = "pattern_upload"
    /\ pc' = "process"
    /\ IF ~pattern_file.decodable
       THEN /\ pattern_status' = "error"
            /\ UNCHANGED <<example_patterns, idea_patterns>>
       ELSE LET new == ParsePatternFile(pattern_file.content)
            IN  /\ example_patterns' =
                       IF new.example # <<>> THEN new.example
                       ELSE example_patterns
                /\ idea_patterns' =
                       IF new.idea # <<>> THEN new.idea ELSE idea_patterns
                /\ pattern_status' = "success"
    /\ UNCHANGED <<concept_dict, dict_status, row, sents, segments, i,
                   idea_context, result, analyzed, decomposed, text, last_context>>

\* line 478 with pattern_file None
NoPatternUpload ==
    /\ pc = "pattern_upload"
    /\ pc' = "process"
    /\ UNCHANGED <<concept_dict, example_patterns, idea_patterns,
                   dict_status, pattern_status, row, sents, segments, i,
                   idea_context, result, analyzed, decomposed, text, last_context>>

\* process_csv on a table without the 発言内容 column, lines 176-178
MissingColumn ==
    /\ pc = "process"
    /\ row = 0
    /\ pc' = "no_column"
    /\ UNCHANGED <<concept_dict, example_patterns, idea_patterns,
                   dict_status, pattern_status, row, sents, segments, i,
                   idea_context, result, analyzed, decomposed, text, last_context>>

\* df[...].apply reaches the next row: analyze_text_with_context is
\* entered, nlp(text) yields the sentences, segments = []
StartRow(u) ==
    /\ pc = "process"
    /\ row < MaxRows
    /\ row' = row + 1
    /\ sents' = u
    /\ segments' = <<>>
    /\ result' = <<>>
    /\ i' = 0
    /\ analyzed' = <<>>
    /\ decomposed' = NoDecomposition
    /\ pc' = "classify"
    /\ UNCHANGED <<concept_dict, example_patterns, idea_patterns,
                   dict_status, pattern_status, idea_context, text>>
    /\ last_context' = idea_context

\* the first loop, lines 125-155, then lines 159-160
ClassifyPass ==
    /\ pc = "classify"
    /\ LET cls == [k \in 1..Len(sents) |->
                      ClassifySentence(sents[k], example_patterns,
                                       concept_dict, idea_patterns)]
           bad == {k \in 1..Len(sents) : cls[k].raised}
       IN  IF bad # {}
           THEN /\ segments' = [k \in 1..(Min(bad) - 1) |-> cls[k].seg]
                /\ pc' = "raised"
                /\ UNCHANGED <<result, idea_context>>
           ELSE /\ segments' = [k \in 1..Len(sents) |-> cls[k].seg]
                /\ result' = <<>>
                /\ idea_context' = InitialIdeaContext
                /\ pc' = "propagate"
    /\ UNCHANGED <<concept_dict, example_patterns, idea_patterns,
                   dict_status, pattern_status, row, sents, i, analyzed,
                   decomposed, text, last_context>>

\* one iteration of the second loop, lines 162-170
PropagateStep ==
    /\ pc = "propagate"
    /\ i < Len(segments)
    /\ LET segment == Propagated(i, idea_context, segments[i + 1])
       IN  /\ idea_context' = IdeaSignal(segment)
           /\ result' = Append(result, segment)
    /\ i' = i + 1
    /\ UNCHANGED <<concept_dict, example_patterns, idea_patterns,
                   dict_status, pattern_status, pc, row, sents, segments,
                   analyzed, decomposed, text, last_context>>

\* line 172
ReturnAnalyzed ==
    /\ pc = "propagate"
    /\ i = Len(segments)
    /\ analyzed' = Join(result)
    /\ pc' = "analyzed"
    /\ UNCHANGED <<concept_dict, example_patterns, idea_patterns,
                   dict_status, pattern_status, row, sents, segments, i,
                   idea_context, result, decomposed, text, last_context>>

\* prepare_matrix_data on the row, lines 271-274
DecomposeRow ==
    /\ pc = "analyzed"
    /\ decomposed' = decompose_utterance(analyzed)
    /\ pc' = IF decomposed'.raised THEN "raised" ELSE "decomposed"
    /\ UNCHANGED <<concept_dict, example_patterns, idea_patterns,
                   dict_status, pattern_status, row, sents, segments, i,
                   idea_context, result, analyzed, text,
                   last_context>>

\* the row is done with: the locals of the calls made for it are gone
EndRow ==
    /\ pc = "decomposed"
    /\ pc' = "process"
    /\ sents' = <<>>
    /\ segments' = <<>>
    /\ result' = <<>>
    /\ i' = 0
    /\ analyzed' = <<>>
    /\ decomposed' = NoDecomposition
    /\ UNCHANGED <<concept_dict, example_patterns, idea_patterns,
                   dict_status, pattern_status, row, idea_context, text,
                   last_context>>

\* the next interaction runs the script again from its first line
Rerun ==
    /\ \/ pc \in {"raised", "no_column"}
       \/ pc = "process" /\ row > 0
    /\ concept_dict' = default_concept_dict
    /\ example_patterns' = default_example_patterns
    /\ idea_patterns' = default_idea_patterns
    /\ dict_status' = "none"
    /\ pattern_status' = "none"
    /\ row' = 0
    /\ sents' = <<>>
    /\ segments' = <<>>
    /\ i' = 0
    /\ idea_context' = FALSE
    /\ result' = <<>>
    /\ analyzed' = <<>>
    /\ decomposed' = NoDecomposition
    /\ pc' = "dict_upload"
    /\ last_context' = FALSE
    /\ UNCHANGED text

Next ==
    \/ \E f \in DictFiles : DictUpload(f)
    \/ NoDictUpload
    \/ \E f \in PatternFiles : PatternUpload(f)
    \/ NoPatternUpload
    \/ MissingColumn
    \/ \E u \in Utterances : StartRow(u)
    \/ ClassifyPass
    \/ PropagateStep
    \/ ReturnAnalyzed
    \/ DecomposeRow
    \/ EndRow
    \/ Rerun

Spec == Init /\ [][Next]_vars

-----------------------------------------------------------------------------
(* decompose_utterance called on an arbitrary string *)

InitDecompose ==
    /\ Globals /\ Locals
    /\ pc = "text"
    /\ text \in Texts
    /\ last_context = FALSE

DecomposeText ==
    /\ pc = "text"
    /\ decomposed' = decompose_utterance(text)
    /\ pc' = IF decomposed'.raised THEN "raised" ELSE "returned"
    /\ UNCHANGED <<concept_dict, example_patterns, idea_patterns,
                   dict_status, pattern_status, row, sents, segments, i,
                   idea_context, result, analyzed, text,
                   last_context>>

NextDecompose == DecomposeText

SpecDecompose == InitDecompose /\ [][NextDecompose]_vars


-----------------------------------------------------------------------------
(* get_dict_download_link: the text of the exported dictionary *)

\* range(0, len(terms), 10): the terms written on one line
ChunkSize == 10

\* for i in range(0, len(terms), 10):
\*     content += ", ".join(terms[i:i+10]) + "\n"
RECURSIVE TermLines(_)
TermLines(terms) ==
    IF terms = <<>> THEN <<>>
    ELSE LET n == Min({ChunkSize, Len(terms)})
         IN  JoinWith(SubSeq(terms, 1, n), <<",", " ">>) \o <<NL>>
             \o TermLines(SubSeq(terms, n + 1, Len(terms)))

\* the content built by the loop over dict_data.items(), before it is
\* base64-encoded into the link
RECURSIVE get_dict_download_link(_)
get_dict_download_link(dict_data) ==
    IF dict_data = <<>> THEN <<>>
    ELSE <<LBracket>> \o Head(dict_data).category \o <<RBracket, NL>>
         \o TermLines(Head(dict_data).terms) \o <<NL>>
         \o get_dict_download_link(Tail(dict_data))

-----------------------------------------------------------------------------
(* a dictionary exported and parsed again *)

\* most categories of a dictionary
MaxCats == 2

\* most terms of a category drawn freely from TermPool
MaxTerms == 1

\* category labels: A / 数 / " A" (with a leading space)
Labels == { <<"A">>, <<"u6570">>, <<" ", "A">> }

\* terms: "A B" / "A,B" (with a comma)
TermPool == { <<"A", " ", "B">>, <<"A", ",", "B">> }

\* distinct one-letter terms
Letters ==
    << "a", "b", "c", "d", "e", "f", "g", "h", "i", "j", "k",
       "l", "m", "n", "o", "p", "q", "r", "s", "t", "u", "v" >>

\* the first n of the one-letter terms
LetterTerms(n) == [k \in 1..n |-> <<Letters[k]>>]

\* term lists: the short ones over TermPool, one that fills a line exactly
\* and one that runs over onto a second line
TermLists ==
    SeqsUpTo(TermPool, MaxTerms)
        \cup {LetterTerms(ChunkSize), LetterTerms(ChunkSize + 1)}

\* dictionaries: the categories of a dict are distinct
Dicts ==
    UNION { { [k \in 1..n |-> [category |-> ls[k], terms |-> ts[k]]] :
                ls \in {l \in [1..n -> Labels] :
                           \A a, b \in 1..n : a # b => l[a] # l[b]},
                ts \in [1..n -> TermLists] } : n \in 0..MaxCats }

InitRoundTrip ==
    /\ Locals
    /\ concept_dict \in Dicts
    /\ example_patterns = default_example_patterns
    /\ idea_patterns = default_idea_patterns
    /\ pc = "dict"
    /\ text = <<>>
    /\ last_context = FALSE

\* content of get_dict_download_link(concept_dict), lines 194-200
ExportDict ==
    /\ pc = "dict"
    /\ text' = get_dict_download_link(concept_dict)
    /\ pc' = "exported"
    /\ UNCHANGED <<concept_dict, example_patterns, idea_patterns,
                   dict_status, pattern_status, row, sents, segments, i,
                   idea_context, result, analyzed, decomposed,
                   last_context>>

\* the exported text parsed by parse_concept_dict_file
ImportDict ==
    /\ pc = "exported"
    /\ concept_dict' = parse_concept_dict_file(text)
    /\ pc' = "imported"
    /\ UNCHANGED <<example_patterns, idea_patterns,
                   dict_status, pattern_status, row, sents, segments, i,
                   idea_context, result, analyzed, decomposed, text,
                   last_context>>

NextRoundTrip == ExportDict \/ ImportDict

SpecRoundTrip == InitRoundTrip /\ [][NextRoundTrip]_vars
-----------------------------------------------------------------------------
(* Properties *)

Glyphs == {LBracket, RBracket, LParenFW, RParenFW, LAngle, RAngle}

\* some pattern of the list compiles and is found in s
MatchesAny(patterns, s) ==
    \E k \in 1..Len(patterns) :
        Compile(patterns[k]).ok /\ Search(patterns[k], s)

\* the bracketed form the priority Example > Concept > Idea > None gives s
PriorityForm(s) ==
    IF MatchesAny(example_patterns, s) THEN Wrap(LBracket, s, RBracket)
    ELSE IF ConceptHit(concept_dict, s) THEN Wrap(LParenFW, s, RParenFW)
    ELSE IF MatchesAny(idea_patterns, s) THEN Wrap(LAngle, s, RAngle)
    ELSE s

C2_UnmarkedUpgraded ==
    [][(pc = "propagate" /\ i < Len(segments) /\ i' = i + 1) =>
          /\ (i > 0 /\ idea_context /\ segments[i + 1] = sents[i + 1]) =>
                 result' = Append(result, Wrap(LAngle, sents[i + 1], RAngle))
          /\ i = 0 => result' = Append(result, segments[1])]_vars

\* the second loop run as a whole from context ctx at 0-based index n
RECURSIVE PropagateAll(_, _, _)
PropagateAll(segs, n, ctx) ==
    IF n >= Len(segs) THEN <<>>
    ELSE LET seg == Propagated(n, ctx, segs[n + 1])
         IN  <<seg>> \o PropagateAll(segs, n + 1, IdeaSignal(seg))

\* C3: in every row of a batch the propagation pass starts with
\* idea_context false, the first sentence is emitted as classified, and
\* the annotation is the one the row's own segments give from a false
\* context, whatever rows came before.
C3_ContextLocal ==
    /\ (pc = "propagate" /\ i = 0) => idea_context = FALSE
    /\ (pc \in {"propagate", "analyzed"} /\ result # <<>>) =>
           result[1] = segments[1]
    /\ pc = "analyzed" => analyzed = Join(PropagateAll(segments, 0, FALSE))

\* the second row is annotated, the first row ended with idea_context set,
\* and the unmarked first sentence of the second row was not upgraded
C3_Witness ==
    /\ row = 2 /\ last_context /\ pc = "analyzed"
    /\ sents # <<>>
    /\ segments[1] = sents[1]
    /\ result[1] = sents[1]

NoGlyphs(ss) ==
    \A k \in 1..Len(ss) : \A j \in 1..Len(ss[k]) : ss[k][j] \notin Glyphs

\* the category sentence k ended in, read off its emitted form
FinalCategory(k) ==
    IF result[k] = Wrap(LBracket, sents[k], RBracket) THEN "example"
    ELSE IF result[k] = Wrap(LParenFW, sents[k], RParenFW) THEN "concept"
    ELSE IF result[k] = Wrap(LAngle, sents[k], RAngle) THEN "idea"
    ELSE "none"

HasLineFeed(s) == \E j \in 1..Len(s) : s[j] = NL

\* the sentences from index k on that ended in category cat, in order
RECURSIVE SentencesOf(_, _)
SentencesOf(cat, k) ==
    IF k > Len(sents) THEN <<>>
    ELSE (IF FinalCategory(k) = cat THEN <<sents[k]>> ELSE <<>>)
         \o SentencesOf(cat, k + 1)

\* as SentencesOf, the sentences that contain a line feed left out
RECURSIVE OneLineSentencesOf(_, _)
OneLineSentencesOf(cat, k) ==
    IF k > Len(sents) THEN <<>>
    ELSE (IF FinalCategory(k) = cat /\ ~HasLineFeed(sents[k])
          THEN <<sents[k]>> ELSE <<>>)
         \o OneLineSentencesOf(cat, k + 1)

\* what is left of the annotation once the one-line bracketed sentences
\* are taken out: the unmarked sentences, and the bracketed sentences that
\* contain a line feed, brackets included
RECURSIVE Leftover(_)
Leftover(k) ==
    IF k > Len(sents) THEN <<>>
    ELSE (IF FinalCategory(k) = "none" \/ HasLineFeed(sents[k])
          THEN result[k] ELSE <<>>)
         \o Leftover(k + 1)

DefaultConfig ==
    /\ example_patterns = default_example_patterns
    /\ idea_patterns = default_idea_patterns
    /\ concept_dict = default_concept_dict

\* C5 as stated: with the default lists the utterance of scenario 4 is
\* annotated 〈私は考えました。〉〈これは良い方法です。〉.
C5_Scenario4AsStated ==
    (pc = "analyzed" /\ sents = Scenario4 /\ DefaultConfig) =>
        analyzed = Wrap(LAngle, Scenario4[1], RAngle)
                   \o Wrap(LAngle, Scenario4[2], RAngle)

\* C5 (amended): with the default lists the utterance of scenario 4 is
\* annotated [私は考えました。]〈これは良い方法です。〉: the first sentence
\* is classified Example and leaves idea_context set for the second, and
\* the second is classified Idea by the classification pass itself.
C5_Scenario4 ==
    (pc = "analyzed" /\ sents = Scenario4 /\ DefaultConfig) =>
        /\ segments = <<Wrap(LBracket, Scenario4[1], RBracket),
                        Wrap(LAngle, Scenario4[2], RAngle)>>
        /\ IdeaSignal(result[1])
        /\ analyzed = Wrap(LBracket, Scenario4[1], RBracket)
                      \o Wrap(LAngle, Scenario4[2], RAngle)

C5_Witness == pc = "analyzed" /\ sents = Scenario4 /\ DefaultConfig

\* only whitespace and the marks 、 。
PunctuationOnly(s) ==
    \A j \in 1..Len(s) : s[j] \in Whitespace \cup {"u3001", "u3002"}

\* C6: "other" is empty when what remains after the three extractions is
\* only whitespace and the marks 、 。, and otherwise holds the one entry
\* that is the remainder trimmed of surrounding whitespace.
C6_OtherSkipsPunctuation ==
    pc = "returned" =>
        decomposed.other =
            IF PunctuationOnly(decomposed.remaining) THEN <<>>
            ELSE <<Strip(decomposed.remaining)>>

Openers == {LBracket, LParenFW, LAngle}

Closer(c) ==
    IF c = LBracket THEN RBracket
    ELSE IF c = LParenFW THEN RParenFW
    ELSE RAngle

NotFlat ==
    [ok |-> FALSE, example |-> <<>>, concept |-> <<>>, idea |-> <<>>,
     plain |-> <<>>]

\* t from position k read as plain text and flat spans whose inner text
\* holds no bracket glyph: [ok, the inner texts by type, the plain text]
RECURSIVE FlatFrom(_, _)
FlatFrom(t, k) ==
    IF k > Len(t)
    THEN [ok |-> TRUE, example |-> <<>>, concept |-> <<>>, idea |-> <<>>,
          plain |-> <<>>]
    ELSE IF t[k] \notin Glyphs
    THEN LET r == FlatFrom(t, k + 1)
         IN  IF ~r.ok THEN NotFlat
             ELSE [r EXCEPT !.plain = <<t[k]>> \o r.plain]
    ELSE IF t[k] \in Openers
    THEN LET after == {j \in (k + 1)..Len(t) : t[j] \in Glyphs}
         IN  IF after = {} THEN NotFlat
             ELSE IF t[Min(after)] # Closer(t[k]) THEN NotFlat
             ELSE LET j     == Min(after)
                      inner == SubSeq(t, k + 1, j - 1)
                      r     == FlatFrom(t, j + 1)
                  IN  IF ~r.ok THEN NotFlat
                      ELSE IF t[k] = LBracket
                      THEN [r EXCEPT !.example = <<inner>> \o r.example]
                      ELSE IF t[k] = LParenFW
                      THEN [r EXCEPT !.concept = <<inner>> \o r.concept]
                      ELSE [r EXCEPT !.idea = <<inner>> \o r.idea]
    ELSE NotFlat

\* C7: of a string made of plain text and flat spans, each list holds the
\* inner texts of the spans of its type in order of occurrence, every
\* span is removed with its delimiters from the working copy, and "other"
\* holds the trimmed plain text alone.
C7_FlatSpansExtracted ==
    (pc = "returned" /\ FlatFrom(text, 1).ok) =>
        LET f == FlatFrom(text, 1)
        IN  /\ decomposed.example = f.example
            /\ decomposed.concept = f.concept
            /\ decomposed.idea = f.idea
            /\ decomposed.remaining = f.plain
            /\ decomposed.other =
                   IF Strip(f.plain) = <<>> THEN <<>> ELSE <<Strip(f.plain)>>

Malformed(patterns) ==
    \E k \in 1..Len(patterns) : ~Compile(patterns[k]).ok

\* C8: with a pattern that does not compile in example_patterns or
\* idea_patterns the analysis of a row never ends in the error being
\* raised: every row started is classified.
C8_BadPatternSkipped ==
    (Malformed(example_patterns) \/ Malformed(idea_patterns)) =>
        pc # "raised"

\* the stripped lines of a dictionary file that are neither blank nor
\* comments
ContentLines(file_content) ==
    LET lines == Split(file_content, NL)
        keep  == {k \in 1..Len(lines) :
                     /\ Strip(lines[k]) # <<>>
                     /\ ~StartsWith(Strip(lines[k]), <<"#">>)}
    IN  [k \in keep |-> Strip(lines[k])]

IsHeader(line) ==
    StartsWith(line, <<LBracket>>) /\ EndsWith(line, <<RBracket>>)

\* a term line stands before any category header
OrphanTermLine(file_content) ==
    LET ls == ContentLines(file_content)
    IN  \E k \in DOMAIN ls :
           /\ ~IsHeader(ls[k])
           /\ \A j \in DOMAIN ls : j < k => ~IsHeader(ls[j])

\* C9: uploading a dictionary file with a term line before any category
\* header is reported as a failure and leaves concept_dict as it was.
C9_MalformedDictRejected ==
    [][\A f \in DictFiles :
          (f.decodable /\ OrphanTermLine(f.content) /\ DictUpload(f)) =>
              /\ dict_status' \in {"error", "warning"}
              /\ concept_dict' = concept_dict]_vars

RECURSIVE SpanChars(_)
SpanChars(entries) ==
    IF entries = <<>> THEN 0
    ELSE Len(Head(entries)) + 2 + SpanChars(Tail(entries))

\* C10: decompose_utterance raises on no string: it returns the four
\* lists, each a list of texts over the characters of the input, "other"
\* of at most one entry, and every character of the input is either in
\* the remainder or in exactly one extracted span.
C10_DecomposeTotal ==
    /\ pc # "raised"
    /\ pc = "returned" =>
          LET chars == {text[j] : j \in 1..Len(text)}
          IN  /\ ~decomposed.raised
              /\ decomposed.example \in Seq(Seq(chars))
              /\ decomposed.concept \in Seq(Seq(chars))
              /\ decomposed.idea \in Seq(Seq(chars))
              /\ decomposed.other \in Seq(Seq(chars))
              /\ Len(decomposed.other) <= 1
              /\ Len(decomposed.remaining)
                    + SpanChars(decomposed.example)
                    + SpanChars(decomposed.concept)
                    + SpanChars(decomposed.idea) = Len(text)

\* an overlapping pair [（]） is decomposed: the example span is cut
\* out first and leaves an unmatched ）
C10_Witness ==
    /\ pc = "returned"
    /\ text = <<LBracket, LParenFW, RBracket, RParenFW>>
    /\ decomposed.example = << <<LParenFW>> >>
    /\ decomposed.other = << <<RParenFW>> >>


\* s itself and s inside one of the three bracket pairs
WrapForms(s) ==
    { s, Wrap(LBracket, s, RBracket), Wrap(LParenFW, s, RParenFW),
      Wrap(LAngle, s, RAngle) }

HasIdeaToken(s) ==
    \E k \in 1..Len(idea_signal_patterns) :
        Contains(s, idea_signal_patterns[k])

\* C12: after the propagation pass has processed a sentence, idea_context
\* is true exactly when the sentence's final text contains one of the
\* tokens 考え, 思い, アイデア, 提案, whatever its category; a sentence is
\* upgraded only at an index > 0 and when the final text of the sentence
\* before it contains a token, and the sentence after an upgraded sentence
\* without a token is emitted as classified.
C12_ContextFromFinalText ==
    pc \in {"propagate", "analyzed"} =>
        /\ (pc = "propagate" => i = Len(result))
        /\ result # <<>> => idea_context = HasIdeaToken(result[Len(result)])
        /\ \A k \in 1..Len(result) :
              result[k] # segments[k] =>
                  /\ k > 1
                  /\ segments[k] = sents[k]
                  /\ HasIdeaToken(result[k - 1])
        /\ \A k \in 2..Len(result) :
              (result[k - 1] # segments[k - 1]
                  /\ ~HasIdeaToken(result[k - 1])) =>
                      result[k] = segments[k]

\* an upgraded sentence without a token is followed by an unmarked
\* sentence, which stays unmarked
C12_Witness ==
    /\ pc = "analyzed"
    /\ \E k \in 2..(Len(result) - 1) :
          /\ result[k] = Wrap(LAngle, sents[k], RAngle)
          /\ segments[k] = sents[k]
          /\ ~HasIdeaToken(result[k])
          /\ segments[k + 1] = sents[k + 1]
          /\ result[k + 1] = sents[k + 1]

\* a label or term that is non-empty, has no surrounding whitespace and
\* holds no comma, line feed, '#', '[' or ']'
PlainText(s) ==
    /\ s # <<>>
    /\ Strip(s) = s
    /\ \A k \in 1..Len(s) : s[k] \notin {",", NL, "#", LBracket, RBracket}

\* a dictionary with at least one category whose labels and terms are plain
PlainDict(d) ==
    /\ d # <<>>
    /\ \A k \in 1..Len(d) :
          /\ PlainText(d[k].category)
          /\ \A j \in 1..Len(d[k].terms) : PlainText(d[k].terms[j])

\* C13: for every concept dictionary with at least one category, whose
\* labels and terms are non-empty, carry no surrounding whitespace and
\* hold no comma, line feed, '#', '[' or ']', parse_concept_dict_file
\* applied to the text get_dict_download_link builds returns the same
\* dictionary: the same categories in the same order, each with the same
\* terms in the same order, also when a category has more than 10 terms.
C13_ExportImportRoundTrip ==
    [][(pc = "exported" /\ pc' = "imported" /\ PlainDict(concept_dict)) =>
           concept_dict' = concept_dict]_vars

\* a plain dictionary of two categories, one with more than 10 terms, has
\* been exported and parsed again
C13_Witness ==
    /\ pc = "imported"
    /\ PlainDict(concept_dict)
    /\ Len(concept_dict) = 2
    /\ \E k \in 1..2 : Len(concept_dict[k].terms) > ChunkSize
    /\ text = get_dict_download_link(concept_dict)
====
